---- MODULE Spec2Model ----
(***************************************************************************)
(* Weather subscription bot (weatherbot/bot.py, weatherbot/weather.py):    *)
(* the conversation handlers, the sqlite subscription store, the forecast  *)
(* rendering and the check_updates reconciliation job.                     *)
(*                                                                         *)
(* Texts are sequences of tokens.  Date texts, locations and callback      *)
(* payloads are sequences of one-character strings, so that strptime, the  *)
(* f-string payloads and str.split act on characters.  Replies are         *)
(* sequences whose literal parts are single tokens.                        *)
(***************************************************************************)
EXTENDS Integers, Sequences, FiniteSets, TLC

VARIABLES
    stage,      \* ConversationHandler state of the user in each chat
    user_data,  \* context.user_data["location"] of the user: user_data is
                \* kept per user, the conversation state per chat and user
    received,   \* per chat, the text of the location message last received
                \* in its conversation
    store,      \* rows of the subscriptions table
    weather,    \* what the weather provider currently answers per location
    job,        \* the scheduler's job store: the ids of the jobs waiting
    pass,       \* the running instances of the check_updates coroutine
    io          \* the outbound calls of the last step, in order: requests to
                \* the weather provider and messages to chats

vars == <<stage, user_data, received, store, weather, job, pass, io>>

----------------------------------------------------------------------------
(* Bounds of the model *)

\* the store holds at most MaxRows rows (the dialog is not completed beyond it)
MaxRows == 2

Chats == {1, 2}

\* One user talks to the bot.  Chat 1 is the private chat (its id is the
\* user's id), chat 2 a group.  Users are the chats the user writes in
\* under Spec: in the group the bot only sends there.
Users == {1}

Oslo == <<"O", "s", "l", "o">>
AB == <<"A", "|", "B">>
Locations == {Oslo, AB}

D_leap == <<"2","0","2","4","-","0","2","-","2","9">>
D_short == <<"2","0","2","4","-","2","-","9">>
D_feb30 == <<"2","0","2","4","-","0","2","-","3","0">>
D_noleap == <<"2","0","2","3","-","0","2","-","2","9">>
D_month13 == <<"2","0","2","4","-","1","3","-","0","1">>
D_year0 == <<"0","0","0","0","-","0","1","-","0","1">>
D_dots == <<"2","9",".","0","2",".","2","0","2","4">>
D_trail == <<"2","0","2","4","-","0","2","-","2","9","1">>
DateTexts == {D_leap, D_short, D_feb30, D_noleap, D_month13, D_year0, D_dots, D_trail}

----------------------------------------------------------------------------
(* datetime.strptime(date_text, "%Y-%m-%d") *)

DigitVal ==
    "0" :> 0 @@ "1" :> 1 @@ "2" :> 2 @@ "3" :> 3 @@ "4" :> 4 @@
    "5" :> 5 @@ "6" :> 6 @@ "7" :> 7 @@ "8" :> 8 @@ "9" :> 9

IsDigit(c) == c \in DOMAIN DigitVal

\* the character at position p, "" past the end
At(s, p) == IF p \in 1..Len(s) THEN s[p] ELSE ""

In(c, lo, hi) == IsDigit(c) /\ DigitVal[c] >= lo /\ DigitVal[c] <= hi

\* %Y is \d\d\d\d
YearMatches(s) == \A i \in 1..4 : IsDigit(At(s, i))

\* %m is 1[0-2]|0[1-9]|[1-9]; an alternative stands only if "-" follows it
MonthLen(s, p) ==
    IF At(s, p) = "1" /\ In(At(s, p + 1), 0, 2) /\ At(s, p + 2) = "-" THEN 2
    ELSE IF At(s, p) = "0" /\ In(At(s, p + 1), 1, 9) /\ At(s, p + 2) = "-" THEN 2
    ELSE IF In(At(s, p), 1, 9) /\ At(s, p + 1) = "-" THEN 1
    ELSE 0

\* %d is 3[0-1]|[1-2]\d|0[1-9]|[1-9]| [1-9]; the first alternative that matches
DayLen(s, p) ==
    IF At(s, p) = "3" /\ In(At(s, p + 1), 0, 1) THEN 2
    ELSE IF In(At(s, p), 1, 2) /\ IsDigit(At(s, p + 1)) THEN 2
    ELSE IF At(s, p) = "0" /\ In(At(s, p + 1), 1, 9) THEN 2
    ELSE IF In(At(s, p), 1, 9) THEN 1
    ELSE IF At(s, p) = " " /\ In(At(s, p + 1), 1, 9) THEN 2
    ELSE 0

\* int() of the n characters from p (a leading space of %d is skipped)
RECURSIVE Num(_, _, _)
Num(s, p, n) ==
    IF n = 0 THEN 0
    ELSE IF At(s, p + n - 1) = " " THEN 0
    ELSE 10 * Num(s, p, n - 1) + DigitVal[At(s, p + n - 1)]

IsLeap(y) == (y % 4 = 0) /\ ((y % 100 # 0) \/ (y % 400 = 0))

DaysInMonth(y, m) ==
    IF m = 2 THEN (IF IsLeap(y) THEN 29 ELSE 28)
    ELSE IF m \in {4, 6, 9, 11} THEN 30
    ELSE 31

ValueError == <<>>

\* the parsed <<year, month, day>>, or ValueError
strptime(s) ==
    IF ~YearMatches(s) \/ At(s, 5) # "-" THEN ValueError
    ELSE LET ml == MonthLen(s, 6) IN
      IF ml = 0 THEN ValueError
      ELSE LET dp == 6 + ml + 1
               dl == DayLen(s, dp) IN
        IF dl = 0 THEN ValueError
        ELSE IF dp + dl - 1 # Len(s) THEN ValueError  \* unconverted data remains
        ELSE LET y == Num(s, 1, 4)
                 m == Num(s, 6, ml)
                 d == Num(s, dp, dl) IN
          IF y < 1 \/ d > DaysInMonth(y, m) THEN ValueError
          ELSE <<y, m, d>>

----------------------------------------------------------------------------
(* SubscriptionDB: the subscriptions table, PRIMARY KEY(chat_id, location, date) *)

Row(c, l, d, f) == [chat_id |-> c, location |-> l, date |-> d, forecast |-> f]

SameKey(r, c, l, d) == r.chat_id = c /\ r.location = l /\ r.date = d

\* INSERT without the OR REPLACE conflict clause
add_subscription_insert(s, c, l, d, f) == s \cup {Row(c, l, d, f)}

\* INSERT OR REPLACE: the row in conflict on the primary key is deleted first
add_subscription(s, c, l, d, f) ==
    {r \in s : ~SameKey(r, c, l, d)} \cup {Row(c, l, d, f)}

\* SELECT chat_id, location, date, forecast (no ORDER BY: a set of rows)
get_subscriptions(s) == s

\* SELECT location, date, forecast WHERE chat_id=?
get_chat_subscriptions(s, c) ==
    {<<r.location, r.date, r.forecast>> : r \in {q \in s : q.chat_id = c}}

\* DELETE WHERE chat_id=? AND location=? AND date=?
remove_subscription(s, c, l, d) == {r \in s : ~SameKey(r, c, l, d)}

\* an update that inserts the row when the key is absent
update_forecast_upsert(s, c, l, d, f) ==
    {r \in s : ~SameKey(r, c, l, d)} \cup {Row(c, l, d, f)}

\* UPDATE ... SET forecast=? WHERE chat_id=? AND location=? AND date=?
update_forecast(s, c, l, d, f) ==
    {IF SameKey(r, c, l, d) THEN [r EXCEPT !.forecast = f] ELSE r : r \in s}

----------------------------------------------------------------------------
(* WeatherService.get_forecast and WeatherBot._get_weather_text *)

\* a provider payload whose forecast list has one entry
Payload(description, temp) ==
    [list |-> <<[weather |-> <<[description |-> description]>>,
                 main |-> [temp |-> temp]]>>]

Clear == Payload("clear", "10")
Rain == Payload("rain", "9")
Fog == Payload("fog", "3")

\* the forecasts the provider can have for a location
Payloads(location) == IF location = Oslo THEN {Clear, Rain} ELSE {Fog}

\* a response without the "list" field, and one whose list is empty
NoListPayload == [message |-> "no data"]
EmptyListPayload == [list |-> <<>>]

\* an exception, as the value a call yields instead of a result: of
\* get_forecast (a payload), and of _get_weather_text (a text)
RequestException == [exception |-> "RequestException"]
Exception == <<"Exception">>

\* how one call of the provider goes: it answers the current forecast, answers
\* a degenerate body, or fails (timeout, raise_for_status)
AllConds == {"ok", "nolist", "emptylist", "raise"}
Conds == {"ok", "raise"}

get_forecast(w, location, cond) ==
    CASE location \notin DOMAIN w -> RequestException   \* 404 for an unknown place
      [] cond = "ok" -> w[location]
      [] cond = "nolist" -> NoListPayload
      [] cond = "emptylist" -> EmptyListPayload
      [] OTHER -> RequestException

Unavailable == <<"Forecast unavailable.">>

\* f"{description}, {temp}" followed by the unit
Render(data) ==
    <<data.list[1].weather[1].description, ", ", data.list[1].main.temp, "degC">>

_get_weather_text(w, location, cond) ==
    LET data == get_forecast(w, location, cond) IN
    IF "exception" \in DOMAIN data THEN Exception
    ELSE IF "list" \notin DOMAIN data THEN Unavailable
    ELSE IF Len(data.list) = 0 THEN Exception      \* IndexError
    ELSE Render(data)

----------------------------------------------------------------------------
(* Updates and the handler table of WeatherBot._setup_handlers *)

IDLE == "IDLE"
SELECTING_LOCATION == "SELECTING_LOCATION"
SELECTING_DATE == "SELECTING_DATE"
Stages == {IDLE, SELECTING_LOCATION, SELECTING_DATE}

\* user_data has no "location" key
NoLocation == <<>>

S_add == <<"a", "d", "d">>
S_view == <<"v", "i", "e", "w">>
S_delete == <<"d", "e", "l", "e", "t", "e">>
S_show_ == <<"s", "h", "o", "w", "|">>
S_del_ == <<"d", "e", "l", "|">>

\* f"show|{loc}|{date}" and f"del|{loc}|{date}"
ShowData(loc, date) == S_show_ \o loc \o <<"|">> \o date
DelData(loc, date) == S_del_ \o loc \o <<"|">> \o date

AcceptedDates == {d \in DateTexts : strptime(d) # ValueError}

\* the subscriptions whose buttons a chat presses (the buttons stay in the
\* chat, so also when the subscription is gone)
ButtonDates == {D_leap}

\* the payloads of the buttons pressed
CallbackDatas ==
    {S_add, S_view, S_delete}
    \cup {ShowData(l, d) : l \in Locations, d \in ButtonDates}
    \cup {DelData(l, d) : l \in Locations, d \in ButtonDates}

Update(kind, text) == [kind |-> kind, text |-> text]

\* every update a chat sends
Updates ==
    {Update("command", <<cmd>>) : cmd \in {"start", "help", "cancel"}}
    \cup {Update("text", t) : t \in Locations \cup DateTexts}
    \cup {Update("callback", d) : d \in CallbackDatas}

\* the updates sent while the bot waits for a city: a text is a place name
PlaceUpdates == {u \in Updates : u.kind = "text" => u.text \in Locations}

\* the conversation handler with cancel registered for SELECTING_DATE only
HandlerCancelDateOnly(st, u) ==
    IF st = IDLE /\ u.kind = "callback" /\ u.text = S_add THEN "start_add"
    ELSE IF st = SELECTING_LOCATION /\ u.kind = "text" THEN "location_selected"
    ELSE IF st = SELECTING_DATE /\ u.kind = "text" THEN "date_selected"
    ELSE IF st = SELECTING_DATE /\ u.kind = "command" /\ u.text = <<"cancel">> THEN "cancel"
    ELSE IF u.kind = "command" /\ u.text = <<"start">> THEN "menu"
    ELSE IF u.kind = "command" /\ u.text = <<"help">> THEN "help"
    ELSE IF u.kind = "callback" THEN "button"
    ELSE "none"

\* the start command registered as an entry point of the conversation
HandlerStartEnters(st, u) ==
    IF st = IDLE /\ u.kind = "callback" /\ u.text = S_add THEN "start_add"
    ELSE IF st = IDLE /\ u.kind = "command" /\ u.text = <<"start">> THEN "start_add"
    ELSE IF st = SELECTING_LOCATION /\ u.kind = "text" THEN "location_selected"
    ELSE IF st = SELECTING_DATE /\ u.kind = "text" THEN "date_selected"
    ELSE IF st # IDLE /\ u.kind = "command" /\ u.text = <<"cancel">> THEN "cancel"
    ELSE IF u.kind = "command" /\ u.text = <<"start">> THEN "menu"
    ELSE IF u.kind = "command" /\ u.text = <<"help">> THEN "help"
    ELSE IF u.kind = "callback" THEN "button"
    ELSE "none"

\* the button handler reached outside a conversation only
HandlerButtonIdleOnly(st, u) ==
    IF st = IDLE /\ u.kind = "callback" /\ u.text = S_add THEN "start_add"
    ELSE IF st = SELECTING_LOCATION /\ u.kind = "text" THEN "location_selected"
    ELSE IF st = SELECTING_DATE /\ u.kind = "text" THEN "date_selected"
    ELSE IF st # IDLE /\ u.kind = "command" /\ u.text = <<"cancel">> THEN "cancel"
    ELSE IF u.kind = "command" /\ u.text = <<"start">> THEN "menu"
    ELSE IF u.kind = "command" /\ u.text = <<"help">> THEN "help"
    ELSE IF st = IDLE /\ u.kind = "callback" THEN "button"
    ELSE "none"

\* The first handler of group 0 that takes the update.  The conversation
\* handler comes first: its entry point (callback "add") outside a
\* conversation, its state handler and then its fallback inside one; an update
\* it does not take goes on to the start and help commands and to button.
Handler(st, u) ==
    IF st = IDLE /\ u.kind = "callback" /\ u.text = S_add THEN "start_add"
    ELSE IF st = SELECTING_LOCATION /\ u.kind = "text" THEN "location_selected"
    ELSE IF st = SELECTING_DATE /\ u.kind = "text" THEN "date_selected"
    ELSE IF st # IDLE /\ u.kind = "command" /\ u.text = <<"cancel">> THEN "cancel"
    ELSE IF u.kind = "command" /\ u.text = <<"start">> THEN "menu"
    ELSE IF u.kind = "command" /\ u.text = <<"help">> THEN "help"
    ELSE IF u.kind = "callback" THEN "button"
    ELSE "none"

----------------------------------------------------------------------------
(* Outbound messages *)

Msg(c, text, markup) == [to |-> c, text |-> text, markup |-> markup]

\* a request of get_forecast to the provider
Fetch(location) == [to |-> 0, text |-> location, markup |-> {}]

NoMarkup == {}

T_choose == <<"Choose an action:">>
T_enter_city == <<"Enter the city you are interested in:">>
T_help == <<"Press /start to show the menu. The /cancel command cancels the current dialog.">>
T_cancelled == <<"Dialog cancelled.">>
T_enter_date == <<"Enter the date as YYYY-MM-DD:">>
T_bad_date == <<"Wrong date format. Try again.">>
T_no_subs == <<"You have no active subscriptions.">>
T_no_subs_delete == <<"You have no subscriptions to delete.">>
T_choose_sub == <<"Choose a subscription:">>
T_choose_delete == <<"Choose a subscription to delete:">>

\* the confirmation without the date
T_added_without_date(location, date_text, forecast) ==
    <<"Subscription added. Weather in ">> \o location \o <<":\n">> \o forecast

\* the confirmation of date_selected: f"... {location} ... {date_text}:\n{forecast}"
T_added(location, date_text, forecast) ==
    <<"Subscription added. Weather in ">> \o location \o <<" on ">> \o date_text
        \o <<":\n">> \o forecast

\* the reply to a del button: f"... {loc} ... {date} ..."
T_deleted(loc, date) ==
    <<"Subscription ">> \o loc \o <<" on ">> \o date \o <<" deleted.">>

\* the reply to a show button: f"... {loc} ... {date}:\n{forecast}"
T_weather(loc, date, forecast) ==
    <<"Weather in ">> \o loc \o <<" on ">> \o date \o <<":\n">> \o forecast

\* the notification of check_updates: f"... {location} ... {date}:\n{new_forecast}"
T_updated(location, date, new_forecast) ==
    <<"Updated weather forecast in ">> \o location \o <<" on ">> \o date
        \o <<":\n">> \o new_forecast

MenuMsg(c) == Msg(c, T_choose, {S_add, S_view, S_delete})

----------------------------------------------------------------------------
(* str.startswith and str.split("|", maxsplit) *)

startswith(s, prefix) ==
    Len(s) >= Len(prefix) /\ SubSeq(s, 1, Len(prefix)) = prefix

\* the index of the first "|" of s, 0 when there is none
FirstBar(s) ==
    LET bars == {i \in 1..Len(s) : s[i] = "|"} IN
    IF bars = {} THEN 0 ELSE CHOOSE i \in bars : \A j \in bars : i <= j

RECURSIVE split(_, _)
split(s, maxsplit) ==
    LET i == FirstBar(s) IN
    IF maxsplit = 0 \/ i = 0 THEN <<s>>
    ELSE <<SubSeq(s, 1, i - 1)>> \o split(SubSeq(s, i + 1, Len(s)), maxsplit - 1)

----------------------------------------------------------------------------
(* State *)

\* the id date_selected gives its job, and what add_job does with the job
\* store under replace_existing=True: a job of the same id gives way
JobId == "check_updates"

add_job_keep_existing(jobs, id) == Append(jobs, id)

add_job(jobs, id) == Append(SelectSeq(jobs, LAMBDA j : j # id), id)

\* instances of one job the executor runs at a time (add_job is called
\* without max_instances, so the scheduler's default applies)
max_instances_raised == 1 + 1

max_instances == 1

\* an instance of check_updates: where it is and the rows of its snapshot it
\* has not reached yet
Instance(pc, todo) == [pc |-> pc, todo |-> todo]

\* no instance is running
NoPass == <<>>

\* the sequence q without its i-th entry
Without(q, i) == SubSeq(q, 1, i - 1) \o SubSeq(q, i + 1, Len(q))

\* The table outlives the process: at construction it is empty or holds the
\* subscription of the chat that only receives.
InitStores == {{}, {Row(2, Oslo, D_leap, Render(Clear))}}

Init ==
    /\ stage = [c \in Chats |-> IDLE]
    /\ user_data = NoLocation
    /\ received = [c \in Chats |-> NoLocation]
    /\ store \in InitStores
    /\ weather \in {w \in [Locations -> Payloads(Oslo) \cup Payloads(AB)] :
                       \A l \in Locations : w[l] \in Payloads(l)}
    /\ job = <<>>
    /\ pass = NoPass
    /\ io = <<>>

\* Handlers run to completion on the event loop: an update is handled when
\* no check_updates pass is between two of its suspension points.
LoopFree == \A i \in DOMAIN pass : pass[i].pc # "loop"

Takes(c, u, name) == LoopFree /\ Handler(stage[c], u) = name

----------------------------------------------------------------------------
(* Handlers of WeatherBot *)

menu(c, u) ==
    /\ Takes(c, u, "menu")
    /\ io' = <<MenuMsg(c)>>
    /\ UNCHANGED <<stage, user_data, received, store, weather, job, pass>>

help(c, u) ==
    /\ Takes(c, u, "help")
    /\ io' = <<Msg(c, T_help, NoMarkup)>>
    /\ UNCHANGED <<stage, user_data, received, store, weather, job, pass>>

start_add(c, u) ==
    /\ Takes(c, u, "start_add")
    /\ io' = <<Msg(c, T_enter_city, NoMarkup)>>
    /\ stage' = [stage EXCEPT ![c] = SELECTING_LOCATION]
    /\ UNCHANGED <<user_data, received, store, weather, job, pass>>

cancel(c, u) ==
    /\ Takes(c, u, "cancel")
    /\ io' = <<Msg(c, T_cancelled, NoMarkup)>>
    /\ stage' = [stage EXCEPT ![c] = IDLE]      \* ConversationHandler.END
    /\ UNCHANGED <<user_data, received, store, weather, job, pass>>

location_selected(c, u) ==
    /\ Takes(c, u, "location_selected")
    /\ user_data' = u.text
    /\ received' = [received EXCEPT ![c] = u.text]
    /\ io' = <<Msg(c, T_enter_date, NoMarkup)>>
    /\ stage' = [stage EXCEPT ![c] = SELECTING_DATE]
    /\ UNCHANGED <<store, weather, job, pass>>

\* an update no handler takes
unhandled(c, u) ==
    /\ Takes(c, u, "none")
    /\ io' = <<>>
    /\ UNCHANGED <<stage, user_data, received, store, weather, job, pass>>

date_selected(c, u, cond) ==
    /\ Takes(c, u, "date_selected")
    /\ LET date_text == u.text
           location == user_data
       IN
       IF location = NoLocation THEN                       \* KeyError
           /\ io' = <<>>
           /\ UNCHANGED <<stage, user_data, received, store, weather, job, pass>>
       ELSE IF strptime(date_text) = ValueError THEN
           /\ io' = <<Msg(c, T_bad_date, NoMarkup)>>
           /\ UNCHANGED <<stage, user_data, received, store, weather, job, pass>>
       ELSE
           LET forecast == _get_weather_text(weather, location, cond) IN
           IF forecast = Exception THEN
               \* the exception leaves the handler: no reply, and the
               \* conversation keeps its state
               /\ io' = <<Fetch(location)>>
               /\ UNCHANGED <<stage, user_data, received, store, weather, job, pass>>
           ELSE
               /\ \/ Cardinality(store) < MaxRows
                  \/ \E r \in store : SameKey(r, c, location, date_text)
               /\ store' = add_subscription(store, c, location, date_text, forecast)
               /\ io' = <<Fetch(location),
                          Msg(c, T_added(location, date_text, forecast), NoMarkup),
                          MenuMsg(c)>>
               /\ job' = add_job(job, JobId)
               /\ stage' = [stage EXCEPT ![c] = IDLE]
               /\ UNCHANGED <<user_data, received, weather, pass>>

\* data.split("|", 2) of every payload a button carries
parts_of == [data \in CallbackDatas |-> split(data, 2)]

button(c, u, cond) ==
    /\ Takes(c, u, "button")
    /\ LET data == u.text
           subs == get_chat_subscriptions(store, c)
           parts == parts_of[data]
       IN
       IF data = S_view THEN
           /\ UNCHANGED <<stage, user_data, received, store, weather, job, pass>>
           /\ io' = IF subs = {} THEN <<Msg(c, T_no_subs, NoMarkup)>>
                    ELSE <<Msg(c, T_choose_sub, {ShowData(e[1], e[2]) : e \in subs})>>
       ELSE IF data = S_delete THEN
           /\ UNCHANGED <<stage, user_data, received, store, weather, job, pass>>
           /\ io' = IF subs = {} THEN <<Msg(c, T_no_subs_delete, NoMarkup)>>
                    ELSE <<Msg(c, T_choose_delete, {DelData(e[1], e[2]) : e \in subs})>>
       ELSE IF startswith(data, S_del_) THEN
           IF Len(parts) # 3 THEN                          \* ValueError on unpacking
               /\ UNCHANGED <<stage, user_data, received, store, weather, job, pass>>
               /\ io' = <<>>
           ELSE
               /\ UNCHANGED <<stage, user_data, received, weather, job, pass>>
               /\ store' = remove_subscription(store, c, parts[2], parts[3])
               /\ io' = <<Msg(c, T_deleted(parts[2], parts[3]), NoMarkup)>>
       ELSE IF startswith(data, S_show_) THEN
           IF Len(parts) # 3 THEN                          \* ValueError on unpacking
               /\ UNCHANGED <<stage, user_data, received, store, weather, job, pass>>
               /\ io' = <<>>
           ELSE
               LET forecast == _get_weather_text(weather, parts[2], cond) IN
               /\ UNCHANGED <<stage, user_data, received, store, weather, job, pass>>
               /\ io' = IF forecast = Exception THEN <<Fetch(parts[2])>>
                        ELSE <<Fetch(parts[2]),
                               Msg(c, T_weather(parts[2], parts[3], forecast), NoMarkup)>>
       ELSE
           \* "add" inside a conversation: answered, nothing else
           /\ UNCHANGED <<stage, user_data, received, store, weather, job, pass>>
           /\ io' = <<>>

----------------------------------------------------------------------------
(* The scheduler and the check_updates job *)

\* the table read of check_updates, among the calls of a step
Select == [to |-> -1, text |-> <<"SELECT chat_id, location, date, forecast">>, markup |-> {}]

\* The run time of the first waiting job comes.  The job leaves the job store
\* (its trigger has no further run time).  Its coroutine starts and reads
\* the table, unless max_instances instances of the job are running: then
\* this run is skipped.
FireJob ==
    /\ LoopFree
    /\ job # <<>>
    /\ job' = Tail(job)
    /\ IF Len(pass) >= max_instances
       THEN /\ pass' = pass
            /\ io' = <<>>
       ELSE /\ pass' = IF get_subscriptions(store) = {} THEN pass
                       ELSE Append(pass, Instance("loop", get_subscriptions(store)))
            /\ io' = <<Select>>
    /\ UNCHANGED <<stage, user_data, received, store, weather>>

\* a pass that ends at the first row it cannot fetch
ContinueAborts(i, todo) == Without(pass, i)

\* the instances after instance i is done with a row
Continue(i, todo) ==
    IF todo = {} THEN Without(pass, i)
    ELSE [pass EXCEPT ![i] = Instance("loop", todo)]

\* One turn of the loop of check_updates in instance i, for the row r of its
\* snapshot; the coroutine is suspended in send_message when it has a
\* message to send.
check_updates(i, r, cond) ==
    /\ i \in DOMAIN pass
    /\ pass[i].pc = "loop"
    /\ r \in pass[i].todo
    /\ LET new_forecast == _get_weather_text(weather, r.location, cond)
           rest == pass[i].todo \ {r}
       IN
       IF new_forecast = Exception THEN                    \* logged, continue
           /\ pass' = Continue(i, rest)
           /\ io' = <<Fetch(r.location)>>
           /\ UNCHANGED <<stage, user_data, received, store, weather, job>>
       ELSE IF new_forecast # r.forecast THEN
           /\ store' = update_forecast(store, r.chat_id, r.location, r.date, new_forecast)
           /\ io' = <<Fetch(r.location),
                      Msg(r.chat_id, T_updated(r.location, r.date, new_forecast), NoMarkup)>>
           /\ pass' = [pass EXCEPT ![i] = Instance("send", rest)]
           /\ UNCHANGED <<stage, user_data, received, weather, job>>
       ELSE
           /\ pass' = Continue(i, rest)
           /\ io' = <<Fetch(r.location)>>
           /\ UNCHANGED <<stage, user_data, received, store, weather, job>>

\* a pass that catches the failure of a send and goes on
ResumeCaught(i, sendOk) ==
    /\ i \in DOMAIN pass
    /\ pass[i].pc = "send"
    /\ pass' = Continue(i, pass[i].todo)
    /\ io' = <<>>
    /\ UNCHANGED <<stage, user_data, received, store, weather, job>>

\* send_message of instance i returns, or raises: the exception ends the
\* coroutine
Resume(i, sendOk) ==
    /\ i \in DOMAIN pass
    /\ pass[i].pc = "send"
    /\ pass' = IF sendOk THEN Continue(i, pass[i].todo) ELSE Without(pass, i)
    /\ io' = <<>>
    /\ UNCHANGED <<stage, user_data, received, store, weather, job>>

\* the provider's forecast for a location changes
WeatherChange(l, p) ==
    /\ weather[l] # p
    /\ weather' = [weather EXCEPT ![l] = p]
    /\ io' = <<>>
    /\ UNCHANGED <<stage, user_data, received, store, job, pass>>

----------------------------------------------------------------------------

Next ==
    \/ \E c \in Users, u \in Updates : menu(c, u)
    \/ \E c \in Users, u \in Updates : help(c, u)
    \/ \E c \in Users, u \in Updates : start_add(c, u)
    \/ \E c \in Users, u \in Updates : cancel(c, u)
    \/ \E c \in Users, u \in PlaceUpdates : location_selected(c, u)
    \/ \E c \in Users, u \in Updates, cond \in Conds : date_selected(c, u, cond)
    \/ \E c \in Users, u \in Updates, cond \in Conds : button(c, u, cond)
    \/ \E c \in Users, u \in Updates : unhandled(c, u)
    \/ FireJob
    \/ \E i \in DOMAIN pass : \E r \in pass[i].todo, cond \in Conds : check_updates(i, r, cond)
    \/ \E i \in DOMAIN pass, sendOk \in BOOLEAN : Resume(i, sendOk)
    \/ \E l \in Locations : \E p \in Payloads(l) : WeatherChange(l, p)

Spec == Init /\ [][Next]_vars

\* The provider and the chat transport answer every call, and the event loop
\* runs what is ready: a due job fires, a started pass takes its turns, a
\* send returns.
ReliableNext ==
    \/ \E c \in Users, u \in Updates : menu(c, u)
    \/ \E c \in Users, u \in Updates : help(c, u)
    \/ \E c \in Users, u \in Updates : start_add(c, u)
    \/ \E c \in Users, u \in Updates : cancel(c, u)
    \/ \E c \in Users, u \in PlaceUpdates : location_selected(c, u)
    \/ \E c \in Users, u \in Updates : date_selected(c, u, "ok")
    \/ \E c \in Users, u \in Updates : button(c, u, "ok")
    \/ \E c \in Users, u \in Updates : unhandled(c, u)
    \/ FireJob
    \/ \E i \in DOMAIN pass : \E r \in pass[i].todo : check_updates(i, r, "ok")
    \/ \E i \in DOMAIN pass : Resume(i, TRUE)
    \/ \E l \in Locations : \E p \in Payloads(l) : WeatherChange(l, p)

FairSpec ==
    /\ Init
    /\ [][ReliableNext]_vars
    /\ WF_vars(FireJob)
    /\ WF_vars(\E i \in DOMAIN pass : \E r \in pass[i].todo : check_updates(i, r, "ok"))
    /\ WF_vars(\E i \in DOMAIN pass : Resume(i, TRUE))

\* The dialog alone: the user writes in the private chat and in the group,
\* and the provider answers in every way it can.
DialogNext ==
    \/ \E c \in Chats, u \in Updates : start_add(c, u)
    \/ \E c \in Chats, u \in Updates : cancel(c, u)
    \/ \E c \in Chats, u \in PlaceUpdates : location_selected(c, u)
    \/ \E c \in Chats, u \in Updates, cond \in AllConds : date_selected(c, u, cond)

DialogSpec == Init /\ [][DialogNext]_vars

----------------------------------------------------------------------------
(* Vocabulary of the properties *)

\* the step is the handling of the update u of chat c, by the handler the
\* dispatch picks for it
Handles(c, u) ==
    LET name == Handler(stage[c], u) IN
    CASE name = "menu" -> menu(c, u)
      [] name = "help" -> help(c, u)
      [] name = "start_add" -> start_add(c, u)
      [] name = "cancel" -> cancel(c, u)
      [] name = "location_selected" -> location_selected(c, u)
      [] name = "date_selected" -> \E cond \in Conds : date_selected(c, u, cond)
      [] name = "button" -> \E cond \in Conds : button(c, u, cond)
      [] OTHER -> unhandled(c, u)

\* the messages to chats among the calls q, and the requests to the provider
Messages(q) == SelectSeq(q, LAMBDA m : m.to \in Chats)
Fetches(q) == SelectSeq(q, LAMBDA m : m.to = 0)

\* the text contains the part, in one piece
Embeds(text, part) ==
    \E i \in 1..(Len(text) - Len(part) + 1) : SubSeq(text, i, i + Len(part) - 1) = part

\* YYYY-MM-DD exactly, naming a day of the calendar (stated without strptime)
IsCanonicalDate(t) ==
    /\ Len(t) = 10
    /\ \A i \in {1, 2, 3, 4, 6, 7, 9, 10} : t[i] \in {"0","1","2","3","4","5","6","7","8","9"}
    /\ t[5] = "-" /\ t[8] = "-"
    /\ LET y == 1000 * DigitVal[t[1]] + 100 * DigitVal[t[2]] + 10 * DigitVal[t[3]] + DigitVal[t[4]]
           m == 10 * DigitVal[t[6]] + DigitVal[t[7]]
           d == 10 * DigitVal[t[9]] + DigitVal[t[10]]
           leap == y % 4 = 0 /\ (y % 100 # 0 \/ y % 400 = 0)
           days == CASE m \in {1, 3, 5, 7, 8, 10, 12} -> 31
                     [] m \in {4, 6, 9, 11} -> 30
                     [] m = 2 -> (IF leap THEN 29 ELSE 28)
                     [] OTHER -> 0
       IN y >= 1 /\ d >= 1 /\ d <= days

\* chat c is asked for a date and has a pending location
AwaitingDate(c) == stage[c] = SELECTING_DATE /\ user_data # NoLocation

ForecastTexts == {Render(p) : p \in Payloads(Oslo) \cup Payloads(AB)} \cup {Unavailable}

----------------------------------------------------------------------------
(* Properties *)

\* C1: whenever the forecast client raises while date_selected is finalizing
\* a valid date in SELECTING_DATE, no row is written, a failure message is
\* sent to the user and the stage becomes IDLE.
C1_FetchFailureEndsDialog ==
    [][\A c \in Users, u \in Updates :
          (AwaitingDate(c) /\ IsCanonicalDate(u.text) /\ date_selected(c, u, "raise"))
          => /\ store' = store
             /\ Len(Messages(io')) >= 1 /\ \A i \in DOMAIN Messages(io') : Messages(io')[i].to = c
             /\ stage'[c] = IDLE]_vars

\* C5: from SELECTING_DATE with pending location L, a valid date text D and a
\* successful fetch rendering F, the store afterwards contains the row
\* (chat, L, D, F), a confirmation embedding L, D and F is sent to the chat, a
\* reconciliation run is scheduled and the stage is IDLE.
C5_SuccessfulFinalization ==
    [][\A c \in Users, u \in Updates :
          (AwaitingDate(c) /\ IsCanonicalDate(u.text) /\ date_selected(c, u, "ok"))
          => LET L == user_data
                 D == u.text
                 F == Render(weather[L])
             IN /\ [chat_id |-> c, location |-> L, date |-> D, forecast |-> F] \in store'
                /\ \E i \in DOMAIN io' :
                      /\ io'[i].to = c
                      /\ Embeds(io'[i].text, L) /\ Embeds(io'[i].text, D)
                      /\ Embeds(io'[i].text, F)
                /\ job' = <<JobId>>
                /\ stage'[c] = IDLE]_vars

\* C5 witness: the confirmation of (1, Oslo, 2024-02-29) was just sent, its
\* row is stored, a run is scheduled and the chat is back in IDLE
C5_Witness ==
    /\ \E f \in ForecastTexts :
          /\ \E i \in DOMAIN io : io[i] = Msg(1, T_added(Oslo, D_leap, f), NoMarkup)
          /\ Row(1, Oslo, D_leap, f) \in store
    /\ job = <<JobId>>
    /\ stage[1] = IDLE

\* C8: a malformed or impossible date text received in SELECTING_DATE causes
\* a re-prompt and leaves the stage, the pending location, the store and the
\* scheduled jobs unchanged; no forecast is fetched.
C8_BadDateReprompts ==
    [][\A c \in Users, u \in Updates :
          (AwaitingDate(c) /\ u.kind = "text" /\ ~IsCanonicalDate(u.text) /\ Handles(c, u))
          => /\ Len(Messages(io')) = 1 /\ Messages(io')[1].to = c
             /\ Fetches(io') = <<>>
             /\ UNCHANGED <<stage, user_data, store, job>>]_vars

\* C9: a date text is accepted by finalization iff it is YYYY-MM-DD exactly
\* and names a real calendar date, so every row written by the dialog has a
\* date of that form.
C9_AcceptsExactlyCanonicalDates ==
    [][\A c \in Users, u \in Updates :
          (AwaitingDate(c) /\ date_selected(c, u, "ok"))
          => /\ (stage'[c] = IDLE) <=> IsCanonicalDate(u.text)
             /\ \A r \in store' \ store : IsCanonicalDate(r.date)]_vars

\* the rows of s other than the one of the key of r
Others(s, r) == {q \in s : ~SameKey(q, r.chat_id, r.location, r.date)}

\* The pass compares with the text it read in its snapshot: for every
\* subscription of the snapshot whose fetch succeeds, if the freshly rendered
\* text differs from the text read for it, the stored forecast of its key is
\* set to the new text and exactly one notification is sent, to its chat; if
\* the text is equal, nothing is sent and the store is untouched.
ComparesWithSnapshot ==
    [][\A i \in DOMAIN pass : \A r \in pass[i].todo :
          check_updates(i, r, "ok")
          => LET new == Render(weather[r.location]) IN
             IF new # r.forecast
             THEN /\ \A q \in store' \ Others(store', r) : q.forecast = new
                  /\ Others(store', r) = Others(store, r)
                  /\ (store' = Others(store', r)) <=> (store = Others(store, r))
                  /\ Len(Messages(io')) = 1
                  /\ Messages(io')[1].to = r.chat_id
                  /\ Embeds(Messages(io')[1].text, new)
             ELSE /\ store' = store
                  /\ Messages(io') = <<>>]_vars

\* C2: in a reconciliation pass, for every subscription of the snapshot whose
\* fetch succeeds: if the freshly rendered text differs from the stored text,
\* the stored forecast of that key is set to the new text and exactly one
\* notification is sent, to the chat of the subscription; if the text is
\* equal, no notification is sent and the store is left untouched.
C2_ReconcilesWithStoredText ==
    [][\A i \in DOMAIN pass : \A r \in pass[i].todo : \A q \in store :
          (SameKey(q, r.chat_id, r.location, r.date) /\ check_updates(i, r, "ok"))
          => LET new == Render(weather[r.location]) IN
             IF new # q.forecast
             THEN /\ store' = (store \ {q}) \cup {[q EXCEPT !.forecast = new]}
                  /\ Len(Messages(io')) = 1
                  /\ Messages(io')[1].to = r.chat_id
                  /\ Embeds(Messages(io')[1].text, new)
             ELSE /\ store' = store
                  /\ Messages(io') = <<>>]_vars

\* the subscription (c, l, d) is stored with a text that is not the
\* provider's current forecast for l
Stale(c, l, d) ==
    \E r \in store : SameKey(r, c, l, d) /\ r.forecast # Render(weather[l])

\* a change notification about (c, l, d) is sent to chat c
Notified(c, l, d) ==
    \E i \in DOMAIN io, f \in ForecastTexts : io[i] = Msg(c, T_updated(l, d, f), NoMarkup)

\* C3: for every subscription made in the dialog that stays in the store, if
\* the provider's rendered forecast comes to differ from the stored text
\* (fetches and sends succeed, the scheduler is fair), a change notification
\* is eventually sent to its chat without any further user action -- unless
\* the subscription is removed or the forecast is the stored one again.
C3_ChangeEventuallyNotified ==
    \A c \in Users, l \in Locations, d \in AcceptedDates :
        Stale(c, l, d) ~> (Notified(c, l, d) \/ ~Stale(c, l, d))

\* C4: the store holds at most one row per (chat_id, location, date), and
\* right after an upsert of (c, l, d, f) the list of chat c has exactly one
\* entry for (l, d), with forecast f.
C4_OneRowPerKey ==
    /\ \A r, q \in store : SameKey(q, r.chat_id, r.location, r.date) => q = r
    /\ \A c \in Users, l \in Locations, d \in AcceptedDates, f \in ForecastTexts :
          (\E i \in DOMAIN io : io[i] = Msg(c, T_added(l, d, f), NoMarkup))
          => {e \in get_chat_subscriptions(store, c) : e[1] = l /\ e[2] = d}
                 = {<<l, d, f>>}

\* C4 witness: chat 1 subscribed again to (Oslo, 2024-02-29), now with rain,
\* while another subscription is stored
C4_Witness ==
    /\ \E i \in DOMAIN io : io[i] = Msg(1, T_added(Oslo, D_leap, Render(Rain)), NoMarkup)
    /\ get_chat_subscriptions(store, 1) = {<<Oslo, D_leap, Render(Rain)>>}
    /\ Cardinality(store) = 2

StartUpdate == Update("command", <<"start">>)
CancelUpdate == Update("command", <<"cancel">>)
AddUpdate == Update("callback", S_add)
PlaceTexts == {u \in PlaceUpdates : u.kind = "text"}

\* C6 as claimed: from IDLE, start and add each move the conversation to
\* SELECTING_LOCATION and prompt for a location; the next text is stored
\* verbatim as the pending location and moves the stage to SELECTING_DATE.
C6_StartAndAddEnterDialog ==
    [][\A c \in Users :
          /\ \A u \in {StartUpdate, AddUpdate} :
                (stage[c] = IDLE /\ Handles(c, u))
                => /\ stage'[c] = SELECTING_LOCATION
                   /\ Messages(io') = <<Msg(c, T_enter_city, NoMarkup)>>
          /\ \A u \in PlaceTexts :
                (stage[c] = SELECTING_LOCATION /\ Handles(c, u))
                => /\ user_data' = u.text
                   /\ stage'[c] = SELECTING_DATE]_vars

\* C6 amended: from IDLE, add moves the conversation to SELECTING_LOCATION
\* and prompts for a location, while start shows the menu and leaves the
\* stage as it is; the next text in SELECTING_LOCATION is stored verbatim as
\* the pending location and moves the stage to SELECTING_DATE.
C6_AddEntersDialog ==
    [][\A c \in Users :
          /\ (stage[c] = IDLE /\ Handles(c, AddUpdate))
             => /\ stage'[c] = SELECTING_LOCATION
                /\ Messages(io') = <<Msg(c, T_enter_city, NoMarkup)>>
          /\ (stage[c] = IDLE /\ Handles(c, StartUpdate))
             => /\ stage' = stage
                /\ Messages(io') = <<MenuMsg(c)>>
          /\ \A u \in PlaceTexts :
                (stage[c] = SELECTING_LOCATION /\ Handles(c, u))
                => /\ user_data' = u.text
                   /\ stage'[c] = SELECTING_DATE]_vars

\* C6 witness: the text "A|B" sent after add is the pending location, and
\* the chat is asked for the date
C6_Witness ==
    /\ stage[1] = SELECTING_DATE
    /\ user_data = AB
    /\ io = <<Msg(1, T_enter_date, NoMarkup)>>

\* C7 as claimed: cancel is accepted in SELECTING_LOCATION and in
\* SELECTING_DATE, acknowledges, moves the stage to IDLE and clears the
\* pending location; it writes nothing and schedules nothing.
C7_CancelClearsSession ==
    [][\A c \in Users :
          (stage[c] # IDLE /\ Handles(c, CancelUpdate))
          => /\ Messages(io') = <<Msg(c, T_cancelled, NoMarkup)>>
             /\ stage'[c] = IDLE
             /\ user_data' = NoLocation
             /\ UNCHANGED <<store, job>>]_vars

\* C7 amended: cancel is accepted in SELECTING_LOCATION and in
\* SELECTING_DATE, acknowledges and moves the stage to IDLE; the pending
\* location stays in user_data as it was; nothing is written or scheduled.
C7_CancelKeepsLocation ==
    [][\A c \in Users :
          (stage[c] # IDLE /\ Handles(c, CancelUpdate))
          => /\ Messages(io') = <<Msg(c, T_cancelled, NoMarkup)>>
             /\ stage'[c] = IDLE
             /\ user_data' = user_data
             /\ UNCHANGED <<store, job>>]_vars

\* C7 witness: a dialog was cancelled after its location was entered
C7_Witness ==
    /\ io = <<Msg(1, T_cancelled, NoMarkup)>>
    /\ stage[1] = IDLE
    /\ user_data = Oslo

\* the callbacks of the menu actions and of their selections
MenuActions == {u \in Updates : u.kind = "callback" /\ u.text # S_add}

\* C10 as claimed: view, delete and their selections are acted on in IDLE
\* only and never change the stage: arriving in SELECTING_LOCATION or
\* SELECTING_DATE they are not processed.
C10_MenuActionsOnlyInIdle ==
    [][\A c \in Users, u \in MenuActions :
          (stage[c] # IDLE /\ Handles(c, u))
          => /\ io' = <<>>
             /\ UNCHANGED <<stage, store>>]_vars

\* what button does for a menu action u of chat c
Acted(c, u) ==
    LET subs == {r \in store : r.chat_id = c} IN
    CASE u.text = S_view ->
           /\ Len(io') = 1 /\ io'[1].to = c
           /\ io'[1].text = (IF subs = {} THEN T_no_subs ELSE T_choose_sub)
           /\ io'[1].markup = {ShowData(r.location, r.date) : r \in subs}
      [] u.text = S_delete ->
           /\ Len(io') = 1 /\ io'[1].to = c
           /\ io'[1].text = (IF subs = {} THEN T_no_subs_delete ELSE T_choose_delete)
           /\ io'[1].markup = {DelData(r.location, r.date) : r \in subs}
      [] startswith(u.text, S_del_) ->
           /\ Len(Messages(io')) = 1 /\ Messages(io')[1].to = c
           /\ store' \subseteq store
      [] OTHER ->
           Len(Fetches(io')) = 1

\* C10 amended: view, delete and their selections are acted on in every
\* stage, SELECTING_LOCATION and SELECTING_DATE included, and handling them
\* never changes the conversation stage.
C10_MenuActionsInEveryStage ==
    [][\A c \in Users, u \in MenuActions :
          Handles(c, u) => (stage' = stage /\ Acted(c, u))]_vars

\* C10 witness: the chat is asked for a date and was just shown the list of
\* its subscriptions
C10_Witness ==
    /\ stage[1] = SELECTING_DATE
    /\ Len(io) = 1 /\ io[1].to = 1 /\ io[1].text = T_choose_sub

----------------------------------------------------------------------------
(* Deleting, absent rows, failures in a pass *)

\* the entries of the delete list of chat c, with the rows they are built from
DeleteEntries(c) ==
    {<<r, u>> \in store \X Updates :
        r.chat_id = c /\ u.kind = "callback" /\ u.text = DelData(r.location, r.date)}

\* C11: selecting an entry of the delete list deletes exactly the row of the
\* chat the entry was built from, whatever the location text (a "|" in it
\* included), and leaves every other row as it is.
C11_DeleteEntryDeletesItsRow ==
    [][\A c \in Users : \A e \in DeleteEntries(c) :
          Handles(c, e[2]) => store' = store \ {e[1]}]_vars

\* there is no row of the key (c, l, d) in the store
Absent(c, l, d) == ~\E q \in store : SameKey(q, c, l, d)

\* the presses of a button of a delete list
DelUpdates == {u \in Updates : u.kind = "callback" /\ startswith(u.text, S_del_)}

\* C12: a delete and an update_forecast on a key that is not in the store
\* leave the whole store unchanged and do not raise: the delete is answered,
\* and a pass that reaches a row deleted after its snapshot goes on.
C12_AbsentRowNoOps ==
    [][/\ \A c \in Users, u \in DelUpdates :
             (/\ Absent(c, parts_of[u.text][2], parts_of[u.text][3])
              /\ Handles(c, u))
             => /\ store' = store
                /\ Len(Messages(io')) = 1
       /\ \A i \in DOMAIN pass : \A r \in pass[i].todo, cond \in Conds :
             (/\ Absent(r.chat_id, r.location, r.date)
              /\ check_updates(i, r, cond))
             => /\ store' = store
                /\ \/ pass' = Continue(i, pass[i].todo \ {r})
                   \/ pass' = [pass EXCEPT ![i] = Instance("send", pass[i].todo \ {r})]]_vars

\* C12 witness: a pass has reached a row that was deleted after its snapshot,
\* with a forecast that differs from the one it read: the update changed
\* nothing, and the pass is at its send
C12_Witness ==
    /\ \E i \in DOMAIN pass : pass[i].pc = "send"
    /\ \E c \in Chats, l \in Locations, d \in AcceptedDates :
          Notified(c, l, d) /\ Absent(c, l, d)

----------------------------------------------------------------------------
(* Scheduling *)

\* a successful finalization in chat c: date_selected has ended the dialog,
\* written its row and confirmed it
Finalizes(c) ==
    /\ stage[c] = SELECTING_DATE /\ stage'[c] = IDLE
    /\ \E u \in Updates, cond \in Conds : date_selected(c, u, cond)
    /\ \E l \in Locations, d \in AcceptedDates, f \in ForecastTexts :
          /\ Row(c, l, d, f) \in store'
          /\ \E k \in DOMAIN io' : io'[k] = Msg(c, T_added(l, d, f), NoMarkup)

\* C14: every successful finalization schedules one run, which takes the place
\* of a run that is scheduled and has not fired; at most one run is pending
\* in every reachable state; and only a successful finalization schedules.
C14_OneJobIdentity ==
    /\ [](Len(job) <= 1)
    /\ [][/\ \A c \in Users : Finalizes(c) => job' = <<JobId>>
          /\ (job' # job /\ job' # <<>>) => \E c \in Users : Finalizes(c)]_vars

\* C14 witness: a run is pending after the second finalization of the chat,
\* confirmed a moment ago, and no pass has started
C14_Witness ==
    /\ job = <<JobId>>
    /\ pass = NoPass
    /\ Cardinality({r \in store : r.chat_id = 1}) = 2
    /\ \E k \in DOMAIN io : io[k].to = 1 /\ Embeds(io[k].text, D_short)

\* C15: passes never overlap: in no reachable state are two instances of
\* check_updates in progress, also when a finalization schedules a run while
\* a pass is suspended at a send.
C15_PassesNeverOverlap == Len(pass) <= 1

\* C15 witness: a pass is suspended at a send, and the chat has just
\* completed a subscription, whose run is pending
C15_Witness ==
    /\ \E i \in DOMAIN pass : pass[i].pc = "send"
    /\ job = <<JobId>>
    /\ \E k \in DOMAIN io, l \in Locations, d \in AcceptedDates, f \in ForecastTexts :
          io[k] = Msg(1, T_added(l, d, f), NoMarkup)

----------------------------------------------------------------------------
(* Rendering *)

\* the provider's responses that carry a payload
Received == {"ok", "nolist", "emptylist"}

\* C16: rendering never fails on a received payload: at finalization, for
\* every payload the forecast client returns, the row is stored with
\* "<description>, <temperature>degC" of the first entry of the list when the
\* payload has a list, and with the fixed text when it has none.
C16_RenderingNeverFails ==
    [][\A c \in Chats, u \in Updates, cond \in Received :
          (/\ user_data # NoLocation
           /\ strptime(u.text) # ValueError
           /\ date_selected(c, u, cond))
          => LET data == get_forecast(weather, user_data, cond) IN
             \E r \in store' :
                /\ SameKey(r, c, user_data, u.text)
                /\ IF "list" \notin DOMAIN data THEN r.forecast = Unavailable
                   ELSE /\ Len(data.list) >= 1
                        /\ r.forecast = <<data.list[1].weather[1].description, ", ",
                                          data.list[1].main.temp, "degC">>]_vars

----------------------------------------------------------------------------
(* Passes and the users' operations *)

\* C17: change detection is against the stored text: whenever a pass persists
\* a text T and sends a notification for a key, the store holds at that
\* moment a row of the key whose forecast differs from T, however the pass is
\* interleaved with the deletes and re-adds of the users.
C17_ChangeDetectedAgainstStore ==
    [][\A i \in DOMAIN pass : \A r \in pass[i].todo, cond \in Conds :
          (check_updates(i, r, cond) /\ Messages(io') # <<>>)
          => LET T == _get_weather_text(weather, r.location, cond) IN
             \E q \in store : /\ SameKey(q, r.chat_id, r.location, r.date)
                              /\ q.forecast # T]_vars

\* chat c has just been confirmed a subscription: a finalization wrote a row
Confirmed(c) ==
    \E k \in DOMAIN io, l \in Locations, d \in AcceptedDates, f \in ForecastTexts :
        io[k] = Msg(c, T_added(l, d, f), NoMarkup)

\* a pass has just started and read the table
Snapshot == \E k \in DOMAIN io : io[k] = Select

\* C18: after every finalization that writes a row, a pass eventually starts
\* (the scheduler is fair) and takes its snapshot of the store after the row
\* was written, also when the job is scheduled again before it fires or while
\* an earlier pass is in progress.
C18_PassFollowsFinalization ==
    \A c \in Users : Confirmed(c) ~> Snapshot

\* the notification of (c, l, d, f) is being sent: it is among the calls of
\* the last step, and an instance is suspended at its send
Sending(c, l, d, f) ==
    /\ \E i \in DOMAIN pass : pass[i].pc = "send"
    /\ \E k \in DOMAIN io : io[k] = Msg(c, T_updated(l, d, f), NoMarkup)

\* C19: in a pass the store update of a changed subscription comes before its
\* notification is sent, and a failure of the send is not caught: the new
\* text stays stored, and the pass ends with the rows of its snapshot it has
\* not reached, which are not fetched, updated or notified in it.
C19_SendFailureEndsPass ==
    /\ [](\A c \in Chats, l \in Locations, d \in AcceptedDates, f \in ForecastTexts :
             Sending(c, l, d, f)
             => \A q \in store : SameKey(q, c, l, d) => q.forecast = f)
    /\ [][\A i \in DOMAIN pass :
             Resume(i, FALSE) => /\ store' = store
                                 /\ io' = <<>>
                                 /\ pass' = NoPass]_vars

\* C19 witness: the notification of rain for the subscription of chat 2 is
\* being sent, rain is stored for it, and the pass has a row left
C19_Witness ==
    /\ Sending(2, Oslo, D_leap, Render(Rain))
    /\ Row(2, Oslo, D_leap, Render(Rain)) \in store
    /\ \E i \in DOMAIN pass : pass[i].pc = "send" /\ pass[i].todo # {}

----------------------------------------------------------------------------
(* The pending location *)

\* C20: date_selected never runs with no pending location, and the location
\* of every row a finalization writes is the text of the location message
\* received in the same dialog, the one of the chat the date message comes
\* from.
C20_LocationOfTheSameDialog ==
    [][\A c \in Chats, u \in Updates, cond \in AllConds :
          date_selected(c, u, cond)
          => /\ user_data # NoLocation
             /\ \A r \in store' : r \notin store => r.location = received[c]]_vars

====
